---- MODULE Spec2Model ----
(***************************************************************************)
(* Model of tsfc/kernel_args.py: the kernel-argument descriptors, the      *)
(* element-shape adapter (_ElementHandler) and the output-expression       *)
(* builders (make_gem_exprs).                                              *)
(*                                                                         *)
(* The module is purely functional, so the state machine is: construct one *)
(* descriptor from inputs drawn from bounded sets (pc "new" -> "ready"),   *)
(* then read one of its properties or call make_gem_exprs (pc "ready" ->   *)
(* "done"); the value obtained is kept in result.                          *)
(*                                                                         *)
(* Python values are tagged: [t |-> "int", v |-> <<n>>] is the integer n,  *)
(* [t |-> "tuple", v |-> s] the tuple s of integers, and any other tag is  *)
(* the exception raised instead of a value.                                *)
(***************************************************************************)
EXTENDS Integers, Sequences, FiniteSets, TLC

VARIABLES pc, arg, result

vars == <<pc, arg, result>>

(* ------------------------------ bounds -------------------------------- *)

\* index_shape / block-shape dimensions are drawn from 1..MaxDim
MaxDim == 2
\* number of index dimensions of the underlying (scalar) element: 0..MaxBaseRank
MaxBaseRank == 1
\* length of a tensor element's declared block shape: 0..MaxBlockRank
MaxBlockRank == 1
\* number of multiindices a caller hands to make_gem_exprs: 0..MaxMulti
MaxMulti == 2

(* --------------------------- Python values ---------------------------- *)

PyInt(n) == [t |-> "int", v |-> <<n>>]

PyTuple(s) == [t |-> "tuple", v |-> s]

PyRaise(exc) == [t |-> exc, v |-> <<>>]

IsErr(x) == x.t \notin {"int", "tuple"}

RECURSIVE Prod(_)
\* product of a sequence of integers; the empty product is 1
Prod(s) == IF s = <<>> THEN 1 ELSE Head(s) * Prod(Tail(s))

\* Python s[:-n]: note that -0 == 0, so s[:-0] is s[:0], the empty tuple
SliceToMinus(s, n) ==
    IF n = 0 THEN <<>>
    ELSE IF n >= Len(s) THEN <<>>
    ELSE SubSeq(s, 1, Len(s) - n)

\* Python s[:1]
SliceToOne(s) == IF Len(s) = 0 THEN <<>> ELSE <<Head(s)>>

RECURSIVE Chain(_)
\* itertools.chain(*ss) as a tuple
Chain(ss) == IF ss = <<>> THEN <<>> ELSE Head(ss) \o Chain(Tail(ss))

\* np.prod([first, *rest], dtype=int): first is a tagged Python value, rest a
\* sequence of integers.  A tuple among scalars makes the list ragged, which
\* numpy cannot reduce to an integer: the call raises.
np_prod(first, rest) ==
    IF IsErr(first) THEN first
    ELSE IF first.t = "tuple" /\ rest # <<>> THEN PyRaise("ValueError")
    ELSE IF first.t = "tuple" THEN PyInt(Prod(first.v))
    ELSE PyInt(first.v[1] * Prod(rest))

(* ------------------------------ inputs -------------------------------- *)

Dims == 1..MaxDim

SeqsUpTo(S, n) == UNION {[1..k -> S] : k \in 0..n}

\* A finite-element description: index_shape, and for a finat
\* TensorFiniteElement the declared block shape _shape, whose dimensions are
\* the trailing dimensions of index_shape.
PlainElements ==
    {[tensor |-> FALSE, index_shape |-> b, shape |-> <<>>] :
        b \in SeqsUpTo(Dims, MaxBaseRank)}

TensorElements ==
    {[tensor |-> TRUE, index_shape |-> b \o s, shape |-> s] :
        b \in SeqsUpTo(Dims, MaxBaseRank), s \in SeqsUpTo(Dims, MaxBlockRank)}

Elements == PlainElements \cup TensorElements

NoElem == [tensor |-> FALSE, index_shape |-> <<>>, shape |-> <<>>]

DTypes == {"float64"}

Names == {"w"}

\* A descriptor object; fields a class does not have keep these defaults.
Blank ==
    [cls |-> "none", name |-> "", dtype |-> "", elem |-> NoElem, celem |-> NoElem,
     interior_facet |-> FALSE, diagonal |-> FALSE, shape |-> <<>>,
     rnode |-> 0, cnode |-> 0]

NoResult == [op |-> "none"]

(* ------------------------- _ElementHandler ---------------------------- *)

EH_is_tensor_element(elem) == elem.tensor

EH_tensor_shape(elem) == IF EH_is_tensor_element(elem) THEN elem.shape ELSE <<1>>

EH_node_shape(elem) ==
    LET shape == IF EH_is_tensor_element(elem)
                 THEN SliceToMinus(elem.index_shape, Len(EH_tensor_shape(elem)))
                 ELSE elem.index_shape
    IN  Prod(shape)

\* 2*shape if self._interior_facet else shape
FacetNodeShape(elem, interior_facet) ==
    IF interior_facet THEN 2 * EH_node_shape(elem) ELSE EH_node_shape(elem)

(* ---------------------------- descriptors ----------------------------- *)

ElemClasses == {"Coordinates", "Coefficient", "VectorOutput"}

OutClasses ==
    {"ScalarOutput", "VectorOutput", "MatrixOutput", "DualEvalVectorOutput",
     "DualEvalMatrixOutput"}

RankTwoClasses == {"MatrixOutput", "DualEvalMatrixOutput"}

intent(a) == IF a.cls \in OutClasses THEN "OUT" ELSE "IN"

name(a) ==
    CASE a.cls \in OutClasses -> "A"
      [] a.cls = "Coordinates" -> "coords"
      [] a.cls = "CellOrientations" -> "cell_orientations"
      [] a.cls = "CellSizes" -> "cell_sizes"
      [] a.cls \in {"ExteriorFacet", "InteriorFacet"} -> "facet"
      [] OTHER -> a.name

dtype(a) ==
    CASE a.cls = "CellOrientations" -> "int32"
      [] a.cls \in {"ExteriorFacet", "InteriorFacet"} -> "uint32"
      [] OTHER -> a.dtype

\* The module-level name _is_tensor_element, which CellSizesKernelArg calls:
\* kernel_args.py neither defines nor imports it (the only definition of that
\* name is the property of _ElementHandler), so the call raises NameError.
global_is_tensor_element(elem) == PyRaise("NameError")

CellSizes_shape(a) ==
    LET t == global_is_tensor_element(a.elem)
    IN  IF IsErr(t) THEN t
        ELSE IF t.v = <<1>> THEN PyTuple(a.elem.shape)
        ELSE PyTuple(<<1>>)

CellSizes_node_shape(a) ==
    LET t == global_is_tensor_element(a.elem)
    IN  IF IsErr(t) THEN t
        ELSE IF IsErr(CellSizes_shape(a)) THEN CellSizes_shape(a)
        ELSE LET shp == IF t.v = <<1>>
                        THEN SliceToMinus(a.elem.index_shape, Len(CellSizes_shape(a).v))
                        ELSE a.elem.index_shape
             IN  IF a.interior_facet THEN PyInt(2 * Prod(shp)) ELSE PyInt(Prod(shp))

\* the per-node shape of a rank-zero or rank-one descriptor
shape(a) ==
    CASE a.cls \in ElemClasses -> PyTuple(EH_tensor_shape(a.elem))
      [] a.cls = "Constant" -> PyTuple(a.shape)
      [] a.cls = "CellOrientations" ->
            IF a.interior_facet THEN PyTuple(<<2>>) ELSE PyTuple(<<1>>)
      [] a.cls = "CellSizes" -> CellSizes_shape(a)
      [] a.cls = "ExteriorFacet" -> PyTuple(<<1>>)
      [] a.cls = "InteriorFacet" -> PyTuple(<<2>>)
      [] a.cls \in {"ScalarOutput", "DualEvalVectorOutput"} -> PyTuple(<<1>>)

\* the node count of a rank-one descriptor
node_shape(a) ==
    CASE a.cls \in ElemClasses -> PyInt(FacetNodeShape(a.elem, a.interior_facet))
      [] a.cls = "CellOrientations" -> PyTuple(<<1>>)
      [] a.cls = "CellSizes" -> CellSizes_node_shape(a)
      [] a.cls \in {"ExteriorFacet", "InteriorFacet"} -> PyTuple(<<1>>)
      [] a.cls = "DualEvalVectorOutput" -> PyInt(a.rnode)

rshape(a) ==
    IF a.cls = "MatrixOutput" THEN PyTuple(EH_tensor_shape(a.elem)) ELSE PyTuple(<<1>>)

cshape(a) ==
    IF a.cls = "MatrixOutput" THEN PyTuple(EH_tensor_shape(a.celem)) ELSE PyTuple(<<1>>)

rnode_shape(a) ==
    IF a.cls = "MatrixOutput"
    THEN PyInt(FacetNodeShape(a.elem, a.interior_facet))
    ELSE PyInt(a.rnode)

cnode_shape(a) ==
    IF a.cls = "MatrixOutput"
    THEN PyInt(FacetNodeShape(a.celem, a.interior_facet))
    ELSE PyInt(a.cnode)

\* what reading .shape (.rshape, .cshape) yields, one entry per axis
Shapes(a) == IF a.cls \in RankTwoClasses THEN <<rshape(a), cshape(a)>> ELSE <<shape(a)>>

\* what reading .node_shape (.rnode_shape, .cnode_shape) yields
NodeShapes(a) ==
    IF a.cls \in RankTwoClasses THEN <<rnode_shape(a), cnode_shape(a)>>
    ELSE <<node_shape(a)>>

HasNodeShape(a) == a.cls \notin {"none", "Constant", "ScalarOutput"}

(* ----------------------------- loopy_arg ------------------------------ *)

\* lp.GlobalArg(name, dtype, shape=..., [is_output=True]): the record of the
\* constructor's arguments.  isout is "True" when the keyword is passed and
\* "unset" when it is left to the library's default, which is not True.
GlobalArg(n, d, shp, isout) ==
    IF IsErr(shp) THEN [t |-> shp.t, name |-> n, dtype |-> d, shape |-> shp, is_output |-> "unset"]
    ELSE [t |-> "GlobalArg", name |-> n, dtype |-> d, shape |-> shp, is_output |-> isout]

\* shape = np.prod([self.node_shape, *self.shape], dtype=int)
RankOneFlatShape(a) ==
    IF IsErr(node_shape(a)) THEN node_shape(a)
    ELSE IF IsErr(shape(a)) THEN shape(a)
    ELSE np_prod(node_shape(a), shape(a).v)

\* MatrixOutputKernelArg.loopy_arg: both axis lengths are computed from
\* rnode_shape and cshape
MatrixFlatShape(a) ==
    LET rs == np_prod(rnode_shape(a), cshape(a).v)
        cs == np_prod(rnode_shape(a), cshape(a).v)
    IN  PyTuple(<<rs.v[1], cs.v[1]>>)

loopy_arg(a) ==
    CASE a.cls \in {"Coordinates", "Coefficient", "CellOrientations", "CellSizes",
                    "VectorOutput"} ->
            GlobalArg(name(a), dtype(a), RankOneFlatShape(a), "unset")
      [] a.cls \in {"Constant", "ExteriorFacet", "InteriorFacet"} ->
            GlobalArg(name(a), dtype(a), shape(a), "unset")
      [] a.cls = "ScalarOutput" -> GlobalArg(name(a), dtype(a), shape(a), "True")
      [] a.cls = "MatrixOutput" -> GlobalArg(name(a), dtype(a), MatrixFlatShape(a), "unset")
      [] a.cls = "DualEvalVectorOutput" ->
            GlobalArg(name(a), dtype(a), node_shape(a), "unset")
      [] a.cls = "DualEvalMatrixOutput" ->
            GlobalArg(name(a), dtype(a),
                      PyTuple(<<rnode_shape(a).v[1], cnode_shape(a).v[1]>>), "unset")

(* ------------------------- gem expressions ---------------------------- *)

\* a free index of the caller: position p of the k-th multiindex supplied;
\* its extent is unset until gem.Indexed sets it
Index(k, p) == [kind |-> "Index", id |-> <<k, p>>, extent |-> 0]

\* an integer used as an index
Literal(n) == [kind |-> "int", id |-> <<n>>, extent |-> 0]

Variable(n, shp) == [node |-> "Variable", name |-> n, shape |-> shp]

\* Python slice(start, stop); slice(s) is slice(None, s) and starts at 0
slice(start, stop) == [start |-> start, stop |-> stop]

GemError(exc) == [node |-> exc]

IsGemError(e) == e.node \notin {"Variable", "view", "reshape", "Indexed", "FlexiblyIndexed"}

\* gem.view(var, *slices): one slice per axis of the variable
view(var, slices) == [node |-> "view", of |-> var, slices |-> slices]

\* gem.reshape(view, *shapes): one shape per axis of the view, whose product
\* must be the axis's length
reshape(v, shapes) ==
    IF \/ Len(shapes) # Len(v.slices)
       \/ \E i \in 1..Len(shapes) :
             v.slices[i].stop - v.slices[i].start # Prod(shapes[i])
    THEN GemError("ValueError")
    ELSE [node |-> "reshape", of |-> v, shapes |-> shapes]

ShapeOf(e) ==
    CASE e.node = "Variable" -> e.shape
      [] e.node = "view" -> [i \in 1..Len(e.slices) |-> e.slices[i].stop - e.slices[i].start]
      [] e.node = "reshape" -> Chain(e.shapes)

\* gem.Indexed(aggregate, multiindex): the multiindex has one index per
\* dimension of the aggregate, and each free index takes that dimension's extent
Indexed(aggregate, multiindex) ==
    IF IsGemError(aggregate) THEN aggregate
    ELSE IF Len(ShapeOf(aggregate)) # Len(multiindex) THEN GemError("AssertionError")
    ELSE [node |-> "Indexed", of |-> aggregate,
          multiindex |-> [i \in 1..Len(multiindex) |->
              IF multiindex[i].kind = "Index"
              THEN [multiindex[i] EXCEPT !.extent = ShapeOf(aggregate)[i]]
              ELSE multiindex[i]]]

\* row-major stride of dimension d of a block of shape shp
Stride(shp, d) == Prod(SubSeq(shp, d + 1, Len(shp)))

\* number of dimensions of the reshaped view that precede axis a
DimsBefore(shapes, a) == Len(Chain(SubSeq(shapes, 1, a - 1)))

\* remove_componenttensors on one expression: indexing a reshaped view of a
\* variable becomes a direct strided access to the variable, per axis an
\* offset and the (index, stride) pairs addressing it; indexing a variable
\* is left as it is
prune_one(e) ==
    IF e.of.node = "Variable" THEN e
    ELSE LET r == e.of
             v == r.of
         IN  [node |-> "FlexiblyIndexed", variable |-> v.of,
              dim2idxs |-> [a \in 1..Len(v.slices) |->
                  [offset |-> v.slices[a].start,
                   idxs |-> [d \in 1..Len(r.shapes[a]) |->
                       [index |-> e.multiindex[DimsBefore(r.shapes, a) + d],
                        stride |-> Stride(r.shapes[a], d)]]]]]

\* prune(exprs): the expressions in the order given
prune(exprs) == [i \in 1..Len(exprs) |-> prune_one(exprs[i])]

\* the value of a call that builds the expressions es: the exception of the
\* first one that fails, else the pruned list
Returned(es) ==
    IF \E i \in 1..Len(es) : IsGemError(es[i])
    THEN LET i == CHOOSE j \in 1..Len(es) :
                     IsGemError(es[j]) /\ \A k \in 1..(j - 1) : ~IsGemError(es[k])
         IN  [t |-> es[i].node, exprs |-> <<>>]
    ELSE [t |-> "list", exprs |-> prune(es)]

(* --------------------------- make_gem_exprs --------------------------- *)

\* mutant: the precondition on the multiindex list is not checked
Scalar_make_gem_exprs_NoAssert(a, multiindices) ==
    Returned(<<Indexed(Variable(name(a), shape(a).v), <<Literal(0)>>)>>)

Scalar_make_gem_exprs(a, multiindices) ==
    IF Len(multiindices) # 0 THEN [t |-> "AssertionError", exprs |-> <<>>]
    ELSE Returned(<<Indexed(Variable(name(a), shape(a).v), <<Literal(0)>>)>>)

\* mutant: the half-slices start at the side number, not at side * u_shape
RestrictedSlices_Unscaled(restrictions, u_shape) ==
    [i \in 1..Len(u_shape) |-> slice(restrictions[i], restrictions[i] + u_shape[i])]

\* [slice(r*s, (r + 1)*s) for r, s in zip(restrictions, u_shape)]
RestrictedSlices(restrictions, u_shape) ==
    [i \in 1..Len(u_shape) |->
        slice(restrictions[i] * u_shape[i], (restrictions[i] + 1) * u_shape[i])]

\* [slice(s) for s in u_shape]
FullSlices(u_shape) == [i \in 1..Len(u_shape) |-> slice(0, u_shape[i])]

\* tuple(2*u_shape) if self._interior_facet else tuple(u_shape)
CShape(u_shape, interior_facet) ==
    IF interior_facet THEN [i \in 1..Len(u_shape) |-> 2 * u_shape[i]] ELSE u_shape

\* for restrictions in [(0,), (1,)]
VectorRestrictions == << <<0>>, <<1>> >>

\* mutant: the column side varies slowest
MatrixRestrictions_ColumnMajor == << <<0, 0>>, <<1, 0>>, <<0, 1>>, <<1, 1>> >>

\* for restrictions in itertools.product((0, 1), repeat=2)
MatrixRestrictions == << <<0, 0>>, <<0, 1>>, <<1, 0>>, <<1, 1>> >>

Slicez(restrictionz, u_shape, interior_facet) ==
    IF interior_facet
    THEN [k \in 1..Len(restrictionz) |-> RestrictedSlices(restrictionz[k], u_shape)]
    ELSE <<FullSlices(u_shape)>>

\* mutant: the diagonal variant keeps the last multiindex, multiindices[-1:]
DiagonalMultiindices_KeepLast(a, multiindices) ==
    IF a.diagonal /\ Len(multiindices) > 0
    THEN <<multiindices[Len(multiindices)]>>
    ELSE multiindices

\* if self._diagonal: multiindices = multiindices[:1]
DiagonalMultiindices(a, multiindices) ==
    IF a.diagonal THEN SliceToOne(multiindices) ELSE multiindices

Vector_make_expression(a, restricted, multiindices) ==
    Indexed(reshape(restricted, <<a.elem.index_shape>>), Chain(multiindices))

Vector_make_gem_exprs(a, multiindices) ==
    LET u_shape == <<Prod(a.elem.index_shape)>>
        c_shape == CShape(u_shape, a.interior_facet)
        mis == DiagonalMultiindices(a, multiindices)
        slicez == Slicez(VectorRestrictions, u_shape, a.interior_facet)
        var == Variable(name(a), c_shape)
    IN  Returned([k \in 1..Len(slicez) |->
                     Vector_make_expression(a, view(var, slicez[k]), mis)])

Matrix_make_expression(a, restricted, multiindices) ==
    Indexed(reshape(restricted, <<a.elem.index_shape, a.celem.index_shape>>),
            Chain(multiindices))

Matrix_make_gem_exprs(a, multiindices) ==
    LET u_shape == <<Prod(a.elem.index_shape), Prod(a.celem.index_shape)>>
        c_shape == CShape(u_shape, a.interior_facet)
        slicez == Slicez(MatrixRestrictions, u_shape, a.interior_facet)
        var == Variable(name(a), c_shape)
    IN  Returned([k \in 1..Len(slicez) |->
                     Matrix_make_expression(a, view(var, slicez[k]), multiindices)])

make_gem_exprs(a, multiindices) ==
    CASE a.cls = "ScalarOutput" -> Scalar_make_gem_exprs(a, multiindices)
      [] a.cls = "VectorOutput" -> Vector_make_gem_exprs(a, multiindices)
      [] a.cls = "MatrixOutput" -> Matrix_make_gem_exprs(a, multiindices)

\* The multiindices a caller supplies: the k-th has one free index per
\* dimension of the index_shape of the element of the k-th axis (a vector
\* output's element for every k; a scalar output has no element, and any
\* multiindex handed to it is taken to have one index).
MultiindexRank(a, k) ==
    CASE a.cls = "ScalarOutput" -> 1
      [] a.cls = "VectorOutput" -> Len(a.elem.index_shape)
      [] a.cls = "MatrixOutput" ->
            IF k = 1 THEN Len(a.elem.index_shape) ELSE Len(a.celem.index_shape)

Supplied(a, n) == [k \in 1..n |-> [p \in 1..MultiindexRank(a, k) |-> Index(k, p)]]

(* ------------------------------ actions ------------------------------- *)

Init ==
    /\ pc = "new"
    /\ arg = Blank
    /\ result = NoResult

\* __init__ of a descriptor class stores its arguments
Construct(a) ==
    /\ pc' = "ready"
    /\ arg' = a
    /\ UNCHANGED result

NewDualEvalVectorOutput ==
    /\ pc = "new"
    /\ \E n \in Dims, d \in DTypes :
           Construct([Blank EXCEPT !.cls = "DualEvalVectorOutput", !.rnode = n, !.dtype = d])

NewDualEvalMatrixOutput ==
    /\ pc = "new"
    /\ \E rn \in Dims, cn \in Dims, d \in DTypes :
           Construct([Blank EXCEPT !.cls = "DualEvalMatrixOutput", !.rnode = rn,
                                   !.cnode = cn, !.dtype = d])

NewCoordinates ==
    /\ pc = "new"
    /\ \E e \in Elements, d \in DTypes, f \in BOOLEAN :
           Construct([Blank EXCEPT !.cls = "Coordinates", !.elem = e, !.dtype = d,
                                   !.interior_facet = f])

NewConstant ==
    /\ pc = "new"
    /\ \E n \in Names, s \in SeqsUpTo(Dims, MaxBlockRank), d \in DTypes :
           Construct([Blank EXCEPT !.cls = "Constant", !.name = n, !.shape = s, !.dtype = d])

NewCoefficient ==
    /\ pc = "new"
    /\ \E n \in Names, e \in Elements, d \in DTypes, f \in BOOLEAN :
           Construct([Blank EXCEPT !.cls = "Coefficient", !.name = n, !.elem = e,
                                   !.dtype = d, !.interior_facet = f])

NewCellOrientations ==
    /\ pc = "new"
    /\ \E f \in BOOLEAN :
           Construct([Blank EXCEPT !.cls = "CellOrientations", !.interior_facet = f])

NewCellSizes ==
    /\ pc = "new"
    /\ \E e \in Elements, d \in DTypes, f \in BOOLEAN :
           Construct([Blank EXCEPT !.cls = "CellSizes", !.elem = e, !.dtype = d,
                                   !.interior_facet = f])

NewExteriorFacet ==
    /\ pc = "new"
    /\ Construct([Blank EXCEPT !.cls = "ExteriorFacet"])

NewInteriorFacet ==
    /\ pc = "new"
    /\ Construct([Blank EXCEPT !.cls = "InteriorFacet"])

NewScalarOutput ==
    /\ pc = "new"
    /\ \E d \in DTypes : Construct([Blank EXCEPT !.cls = "ScalarOutput", !.dtype = d])

NewVectorOutput ==
    /\ pc = "new"
    /\ \E e \in Elements, d \in DTypes, f \in BOOLEAN, g \in BOOLEAN :
           Construct([Blank EXCEPT !.cls = "VectorOutput", !.elem = e, !.dtype = d,
                                   !.interior_facet = f, !.diagonal = g])

NewMatrixOutput ==
    /\ pc = "new"
    /\ \E re \in Elements, ce \in Elements, d \in DTypes, f \in BOOLEAN :
           Construct([Blank EXCEPT !.cls = "MatrixOutput", !.elem = re, !.celem = ce,
                                   !.dtype = d, !.interior_facet = f])

\* read a property or call a method of the descriptor
Call(r) ==
    /\ pc' = "done"
    /\ result' = r
    /\ UNCHANGED arg

LoopyArg ==
    /\ pc = "ready"
    /\ Call([op |-> "loopy_arg", val |-> loopy_arg(arg)])

ReadShape ==
    /\ pc = "ready"
    /\ Call([op |-> "shape", val |-> Shapes(arg)])

ReadNodeShape ==
    /\ pc = "ready"
    /\ HasNodeShape(arg)
    /\ Call([op |-> "node_shape", val |-> NodeShapes(arg)])

MakeGemExprs ==
    /\ pc = "ready"
    /\ arg.cls \in {"ScalarOutput", "VectorOutput", "MatrixOutput"}
    /\ \E n \in 0..MaxMulti :
          Call([op |-> "make_gem_exprs", n |-> n,
                val |-> make_gem_exprs(arg, Supplied(arg, n))])

Next ==
    \/ NewDualEvalVectorOutput
    \/ NewDualEvalMatrixOutput
    \/ NewCoordinates
    \/ NewConstant
    \/ NewCoefficient
    \/ NewCellOrientations
    \/ NewCellSizes
    \/ NewExteriorFacet
    \/ NewInteriorFacet
    \/ NewScalarOutput
    \/ NewVectorOutput
    \/ NewMatrixOutput
    \/ LoopyArg
    \/ ReadShape
    \/ ReadNodeShape
    \/ MakeGemExprs

Spec == Init /\ [][Next]_vars

(* ------------------------------ claims -------------------------------- *)

Done(op) == pc = "done" /\ result.op = op

IsOutputBuilder == arg.cls \in {"VectorOutput", "MatrixOutput"}

\* the elements of the descriptor's axes
AxisElems(a) == IF a.cls = "MatrixOutput" THEN <<a.elem, a.celem>> ELSE <<a.elem>>

\* the unrestricted node count per axis: the product of the full index_shape
U(a) == [i \in 1..Len(AxisElems(a)) |-> Prod(AxisElems(a)[i].index_shape)]

\* the index_shape dimensions that count nodes: all of them for a plain
\* element, all but the len(_shape) trailing ones for a tensor element
NodeDims(e) ==
    IF e.tensor THEN SubSeq(e.index_shape, 1, Len(e.index_shape) - Len(e.shape))
    ELSE e.index_shape

\* the multiindex arity the downstream compiler guarantees
WellFormed(a, n) ==
    CASE a.cls = "VectorOutput" -> IF a.diagonal THEN n >= 1 ELSE n = 1
      [] a.cls = "MatrixOutput" -> n = 2

\* the restriction sides in the order the spec gives for the returned list
ExpectedSides(a) ==
    IF ~a.interior_facet THEN <<[i \in 1..Len(AxisElems(a)) |-> 0]>>
    ELSE IF a.cls = "VectorOutput" THEN << <<0>>, <<1>> >>
    ELSE << <<0, 0>>, <<0, 1>>, <<1, 0>>, <<1, 1>> >>

Ids(mi) == [i \in 1..Len(mi) |-> mi[i].id]

\* the ids of the indices addressing axis ax of a returned expression
AxisIds(e, ax) == [d \in 1..Len(e.dim2idxs[ax].idxs) |-> e.dim2idxs[ax].idxs[d].index.id]

\* the ids of all indices of a returned expression, axis after axis
AllIds(e) == Chain([ax \in 1..Len(e.dim2idxs) |-> AxisIds(e, ax)])

RECURSIVE Span(_)
\* distance from the first to the last buffer entry the (index, stride)
\* pairs reach
Span(idxs) ==
    IF idxs = <<>> THEN 0
    ELSE (Head(idxs).index.extent - 1) * Head(idxs).stride + Span(Tail(idxs))

\* the half-open range [lo, hi) of axis ax that a returned expression reads
Lo(e, ax) == e.dim2idxs[ax].offset

Hi(e, ax) == e.dim2idxs[ax].offset + Span(e.dim2idxs[ax].idxs) + 1

\* C1: the flat buffer of a matrix output has row-axis length
\* rnode_shape * product(rshape) and column-axis length
\* cnode_shape * product(cshape).
C1_MatrixFlatShape ==
    (Done("loopy_arg") /\ arg.cls = "MatrixOutput") =>
        /\ result.val.t = "GlobalArg"
        /\ result.val.shape =
              PyTuple(<<rnode_shape(arg).v[1] * Prod(rshape(arg).v),
                        cnode_shape(arg).v[1] * Prod(cshape(arg).v)>>)

\* C2: the signature record of a descriptor carries is_output = true exactly
\* when the descriptor's intent is OUT.
C2_OutputFlag ==
    (Done("loopy_arg") /\ result.val.t = "GlobalArg") =>
        ((intent(arg) = "OUT") <=> (result.val.is_output = "True"))

\* C3: for a descriptor built on the element-shape adapter without
\* interior_facet, node_shape is the product of the index_shape dimensions
\* left after removing exactly len(tensor_shape) trailing ones for a tensor
\* element (the full product for a plain one), and shape is the declared
\* block shape for a tensor element and (1,) for a plain one.
C3_AdapterShapes ==
    /\ (Done("node_shape") /\ arg.cls \in ElemClasses \cup {"MatrixOutput"}
            /\ ~arg.interior_facet) =>
          \A i \in 1..Len(AxisElems(arg)) :
              result.val[i] = PyInt(Prod(NodeDims(AxisElems(arg)[i])))
    /\ (Done("shape") /\ arg.cls \in ElemClasses \cup {"MatrixOutput"}) =>
          \A i \in 1..Len(AxisElems(arg)) :
              result.val[i] = PyTuple(IF AxisElems(arg)[i].tensor
                                      THEN AxisElems(arg)[i].shape ELSE <<1>>)

NonOutputRankOne ==
    {"Coordinates", "Coefficient", "CellOrientations", "CellSizes", "ExteriorFacet",
     "InteriorFacet"}

\* C4: for every non-output rank-one argument, loopy_arg.shape is a single
\* integer equal to node_shape * product(shape).
C4_FlatLength ==
    (Done("loopy_arg") /\ arg.cls \in NonOutputRankOne) =>
        /\ result.val.t = "GlobalArg"
        /\ result.val.shape.t = "int"
        /\ ~IsErr(node_shape(arg))
        /\ ~IsErr(shape(arg))
        /\ result.val.shape.v[1] = Prod(node_shape(arg).v) * Prod(shape(arg).v)

FacetDoubled == {"Coordinates", "Coefficient", "CellSizes", "VectorOutput", "MatrixOutput"}

\* C5: a descriptor built with interior_facet=True has node_shape (rnode_shape
\* and cnode_shape) exactly twice that of the descriptor built from the same
\* element(s) with interior_facet=False, and the same shape (rshape, cshape).
C5_FacetDoubling ==
    (Done("node_shape") /\ arg.cls \in FacetDoubled /\ arg.interior_facet) =>
        LET other == [arg EXCEPT !.interior_facet = FALSE]
        IN  /\ \A i \in 1..Len(result.val) :
                  /\ result.val[i].t = "int"
                  /\ NodeShapes(other)[i].t = "int"
                  /\ result.val[i].v[1] = 2 * NodeShapes(other)[i].v[1]
                  /\ ~IsErr(Shapes(arg)[i])
            /\ Shapes(arg) = Shapes(other)

\* C6: make_gem_exprs returns 2 expressions for an interior-facet vector
\* output, in the order side 0, side 1; 4 for an interior-facet matrix output,
\* in the order (0,0), (0,1), (1,0), (1,1) of (row side, column side); and 1
\* for a vector or matrix output that is not interior-facet.  The side of an
\* expression on an axis is read from where its access to the buffer starts:
\* side r starts at r * u.
C6_RestrictionEnumeration ==
    (Done("make_gem_exprs") /\ IsOutputBuilder) =>
        /\ WellFormed(arg, result.n) => result.val.t = "list"
        /\ result.val.t = "list" =>
              /\ Len(result.val.exprs) = Len(ExpectedSides(arg))
              /\ \A k \in 1..Len(result.val.exprs) :
                    \A ax \in 1..Len(U(arg)) :
                        Lo(result.val.exprs[k], ax) = ExpectedSides(arg)[k][ax] * U(arg)[ax]

C6_Witness ==
    /\ Done("make_gem_exprs")
    /\ arg.cls = "MatrixOutput"
    /\ arg.interior_facet
    /\ U(arg)[1] > 1
    /\ U(arg)[2] > 1
    /\ result.val.t = "list"
    /\ Len(result.val.exprs) = 4

\* C7: ScalarOutputKernelArg.make_gem_exprs with an empty multiindex list
\* returns exactly one expression, the buffer variable A of shape (1,) indexed
\* at position 0; with a non-empty list it fails with an assertion error and
\* returns nothing.
C7_ScalarOutput ==
    (Done("make_gem_exprs") /\ arg.cls = "ScalarOutput") =>
        IF result.n = 0
        THEN /\ result.val.t = "list"
             /\ result.val.exprs =
                   <<[node |-> "Indexed",
                      of |-> [node |-> "Variable", name |-> "A", shape |-> <<1>>],
                      multiindex |-> <<[kind |-> "int", id |-> <<0>>, extent |-> 0]>>]>>
        ELSE /\ result.val.t = "AssertionError"
             /\ result.val.exprs = <<>>

C7_Witness ==
    /\ Done("make_gem_exprs")
    /\ arg.cls = "ScalarOutput"
    /\ result.n = 0
    /\ Len(result.val.exprs) = 1

\* C8: in every returned expression the indices applied are the supplied
\* multiindices concatenated in the order supplied, the row multiindex
\* addressing the row axis and the column multiindex the column axis; a
\* vector output built with diagonal=True uses only the first multiindex
\* supplied, on every restriction side.
C8_IndexOrder ==
    (Done("make_gem_exprs") /\ IsOutputBuilder /\ result.val.t = "list") =>
        LET supplied == Supplied(arg, result.n)
            used == IF arg.cls = "VectorOutput" /\ arg.diagonal
                    THEN SubSeq(supplied, 1, IF result.n = 0 THEN 0 ELSE 1)
                    ELSE supplied
        IN  \A k \in 1..Len(result.val.exprs) :
                /\ AllIds(result.val.exprs[k]) = Ids(Chain(used))
                /\ (arg.cls = "MatrixOutput" /\ result.n = 2) =>
                      /\ AxisIds(result.val.exprs[k], 1) = Ids(supplied[1])
                      /\ AxisIds(result.val.exprs[k], 2) = Ids(supplied[2])

C8_Witness ==
    /\ Done("make_gem_exprs")
    /\ arg.cls = "VectorOutput"
    /\ arg.diagonal
    /\ arg.interior_facet
    /\ result.n = 2
    /\ result.val.t = "list"
    /\ Len(result.val.exprs) = 2
    /\ Len(arg.elem.index_shape) = 2
    /\ AllIds(result.val.exprs[2]) = << <<1, 1>>, <<1, 2>> >>

\* C9: with u the product of the full index_shape on an axis, the buffer
\* variable of an interior-facet output has length 2*u on the axis and the
\* expression of side 0 reads [0, u), that of side 1 reads [u, 2*u): the two
\* ranges are disjoint, each of length u, and together cover the axis.  The
\* single expression of an output that is not interior-facet reads the full
\* range [0, u) of a buffer of length u.
C9_HalfSlices ==
    (Done("make_gem_exprs") /\ IsOutputBuilder /\ result.val.t = "list") =>
        \A k \in 1..Len(result.val.exprs) :
            LET e == result.val.exprs[k]
            IN  /\ Len(e.variable.shape) = Len(U(arg))
                /\ Len(e.dim2idxs) = Len(U(arg))
                /\ \A ax \in 1..Len(U(arg)) :
                      LET u == U(arg)[ax]
                      IN  IF arg.interior_facet
                          THEN /\ e.variable.shape[ax] = 2 * u
                               /\ k \in 1..Len(ExpectedSides(arg))
                               /\ ExpectedSides(arg)[k][ax] = 0 =>
                                     (Lo(e, ax) = 0 /\ Hi(e, ax) = u)
                               /\ ExpectedSides(arg)[k][ax] = 1 =>
                                     (Lo(e, ax) = u /\ Hi(e, ax) = 2 * u)
                          ELSE /\ e.variable.shape[ax] = u
                               /\ Lo(e, ax) = 0
                               /\ Hi(e, ax) = u

C9_Witness ==
    /\ Done("make_gem_exprs")
    /\ arg.cls = "MatrixOutput"
    /\ arg.interior_facet
    /\ result.val.t = "list"
    /\ Len(result.val.exprs) = 4
    /\ U(arg) = <<4, 2>>
    /\ Lo(result.val.exprs[2], 1) = 0
    /\ Hi(result.val.exprs[2], 1) = 4
    /\ Lo(result.val.exprs[2], 2) = 2
    /\ Hi(result.val.exprs[2], 2) = 4

\* the per-axis lengths a descriptor declares for its buffer in loopy_arg
DeclaredShape(a) ==
    IF loopy_arg(a).shape.t = "int" THEN <<loopy_arg(a).shape.v[1]>>
    ELSE loopy_arg(a).shape.v

\* C10: the shape of the buffer variable A that make_gem_exprs builds equals,
\* axis by axis, the shape the same descriptor declares for A in loopy_arg.
C10_BufferShapesAgree ==
    (Done("make_gem_exprs") /\ IsOutputBuilder /\ result.val.t = "list") =>
        \A k \in 1..Len(result.val.exprs) :
            result.val.exprs[k].variable.shape = DeclaredShape(arg)

====
